---- MODULE Spec2Model ----
(***************************************************************************)
(* A model of pyopenfigi: the OpenFigi client (wrapper.py) talking to a    *)
(* nondeterministic HTTP service, and the request/response models and      *)
(* interval validators of models.py.                                       *)
(*                                                                         *)
(* Encoding of Python values:                                              *)
(*   - None is the token None, a JSON null the token JsonNull; a missing   *)
(*     keyword argument is a key absent from the DOMAIN;                   *)
(*   - a dict / JSON object is a function whose DOMAIN is its key set, so  *)
(*     that  "k" in d  is  "k" \in DOMAIN d;                               *)
(*   - a list is a sequence;                                               *)
(*   - a date is its day number (a difference of dates is a difference of  *)
(*     day numbers), a number is an integer.                               *)
(***************************************************************************)
EXTENDS Integers, Sequences, FiniteSets, TLC

VARIABLES
    api_key,              \* OpenFigi.api_key
    op,                   \* the client operation of the current/last call
    pc,                   \* "idle"; "sent" while a request awaits its response;
                          \* "paging" and "slept" inside filter()'s while loop
    mapping_jobs,         \* argument of the last map() call
    query,                \* the caller's Query object (filter mutates .start)
    result,               \* filter()'s local `result` (last decoded response)
    mapping_job_results,  \* filter()'s local accumulator
    net,                  \* the current call's requests, responses and sleeps, in order
    outcome,              \* how the current call ended (or "pending")
    arg,                  \* input of the last model construction / validation
    ret                   \* its outcome

vars == <<api_key, op, pc, mapping_jobs, query, result, mapping_job_results,
          net, outcome, arg, ret>>

clientVars == <<api_key, op, pc, mapping_jobs, query, result,
                mapping_job_results, net, outcome>>

None == "<None>"
JsonNull == "<null>"
\* A JSON array or object where a string is expected.
JsonArray == "<array>"

(***************************************************************************)
(* Bounds of the model.                                                    *)
(***************************************************************************)
MaxResults == 2       \* longest JSON array a mapping response carries
MaxPages == 3         \* most requests one filter() call is followed through
MaxLen == 3           \* longest list handed to an interval validator
MaxNum == 2           \* largest number in such a list (the smallest is -1)
DateSlack == 1        \* days explored on either side of the one-year boundary

(***************************************************************************)
(* wrapper.py: class constants and tier properties.                        *)
(***************************************************************************)
MAX_MAPPING_REQUESTS_NO_KEY == 25
MAX_MAPPING_JOBS_NO_KEY == 10
MAX_SEARCH_REQUESTS_NO_KEY == 5
MAX_MAPPING_REQUESTS_KEY == 250
MAX_MAPPING_JOBS_KEY == 100
MAX_SEARCH_REQUESTS_KEY == 20

BASE_URL == "https://api.openfigi.com"

\* Python truthiness of an Optional[str]: None and "" are falsy.
Truthy(s) == s # None /\ s # ""

ApiKeys == {None, "", "XXXXXXXXXX"}

max_mapping_requests(key) ==
    IF Truthy(key) THEN MAX_MAPPING_REQUESTS_KEY ELSE MAX_MAPPING_REQUESTS_NO_KEY

\* max_mapping_jobs with the tiers swapped.
MaxMappingJobsSwapped(key) ==
    IF Truthy(key) THEN MAX_MAPPING_JOBS_NO_KEY ELSE MAX_MAPPING_JOBS_KEY

\* OpenFigi.max_mapping_jobs
max_mapping_jobs(key) ==
    IF Truthy(key) THEN MAX_MAPPING_JOBS_KEY ELSE MAX_MAPPING_JOBS_NO_KEY

max_search_requests(key) ==
    IF Truthy(key) THEN MAX_SEARCH_REQUESTS_KEY ELSE MAX_SEARCH_REQUESTS_NO_KEY

\* OpenFigi.headers sending the key header for every key that is not None.
HeadersUnlessNone(key) ==
    LET content_type == "Content-Type" :> "application/json"
        authorization == IF key # None THEN "X-OPENFIGI-APIKEY" :> key ELSE <<>>
    IN  content_type @@ authorization

\* OpenFigi.headers
headers(key) ==
    LET content_type == "Content-Type" :> "application/json"
        authorization == IF Truthy(key) THEN "X-OPENFIGI-APIKEY" :> key ELSE <<>>
    IN  content_type @@ authorization

(***************************************************************************)
(* models.py: values handed to the interval validators.  A raw value is    *)
(* [kind, items]: kind "list" for a Python list of `items`, "None" for     *)
(* None, "other" for any non-list; an item is [kind, n]: "None", "int" (a  *)
(* number n that is not NaN), "nan" (float('nan')), "date" (the dt.date of *)
(* ordinal n), "datetime" (the dt.datetime at midnight of the day of       *)
(* ordinal n, a dt.date by inheritance) or "str" (anything else).          *)
(***************************************************************************)
NoneItem == [kind |-> "None", n |-> 0]
Num(n) == [kind |-> "int", n |-> n]
NaN == [kind |-> "nan", n |-> 0]
Date(n) == [kind |-> "date", n |-> n]
Datetime(n) == [kind |-> "datetime", n |-> n]
StrItem == [kind |-> "str", n |-> 0]

NoneValue == [kind |-> "None", items |-> <<>>]
List(items) == [kind |-> "list", items |-> items]
NotAList == [kind |-> "other", items |-> <<>>]

\* What a validator does with a value: it returns it (Accept), raises the
\* TypeError pydantic records as a validation error (Reject), or raises an
\* exception pydantic does not catch (Escape).
Accept(v) == [ok |-> TRUE, value |-> v, error |-> "", exc |-> "<None>"]
Reject(v, msg) == [ok |-> FALSE, value |-> v, error |-> msg, exc |-> "TypeError"]
Escape(v, exc, msg) == [ok |-> FALSE, value |-> v, error |-> msg, exc |-> exc]

DAYS_PER_YEAR == 365
\* dt.date.max.toordinal(): 9999-12-31
MAX_ORDINAL == 3652059

\* isinstance(x, int | float | None) and isinstance(x, dt.date | None)
IsNumberOrNone(item) == item.kind \in {"int", "nan", "None"}
IsDateOrNone(item) == item.kind \in {"date", "datetime", "None"}

\* a > b on numbers: every comparison with NaN is False.
GreaterThan(a, b) == a.kind = "int" /\ b.kind = "int" /\ a.n > b.n

\* The interpreters the package runs on differ in the text of one TypeError.
Pythons == {"3.11", "3.13"}

\* The TypeError of a < b between a datetime and a date: Python 3.11 names
\* the datetime first whichever operand it is, Python 3.13 names the operands
\* in order.
TypeName(item) == IF item.kind = "datetime" THEN "datetime.datetime" ELSE "datetime.date"
NotComparable(python, a, b) ==
    IF python = "3.11" THEN "can't compare datetime.datetime to datetime.date"
    ELSE "'<' not supported between instances of '" \o TypeName(a) \o "' and '"
             \o TypeName(b) \o "'"

\* NullableNumberInterval.validate(cls, v)
NullableNumberInterval_validate(v) ==
    IF v.kind # "list" THEN Reject(v, "List required")
    ELSE IF Len(v.items) # 2 THEN Reject(v, "The list must contain two elements")
    ELSE IF ~IsNumberOrNone(v.items[1]) \/ ~IsNumberOrNone(v.items[2])
        THEN Reject(v, "Elements must be of type int, float or None")
    ELSE IF v.items[1].kind = "None" /\ v.items[2].kind = "None"
        THEN Reject(v, "At least one element must be a number")
    ELSE IF v.items[1].kind # "None" /\ v.items[2].kind # "None"
            /\ GreaterThan(v.items[1], v.items[2])
        THEN Reject(v, "Numbers must be sorted in ascending order")
    ELSE Accept(v)

\* NullableDateInterval.validate(cls, v).  In the last test, line 113,
\* v[0] + dt.timedelta(days=365) raises OverflowError past dt.date.max, and
\* the comparison of a datetime with a date raises TypeError.
NullableDateInterval_validate(python, v) ==
    IF v.kind # "list" THEN Reject(v, "List required")
    ELSE IF Len(v.items) # 2 THEN Reject(v, "The list must contain two elements")
    ELSE IF ~IsDateOrNone(v.items[1]) \/ ~IsDateOrNone(v.items[2])
        THEN Reject(v, "Elements must be of type date or None")
    ELSE IF v.items[1].kind = "None" /\ v.items[2].kind = "None"
        THEN Reject(v, "At least one element must be a date")
    ELSE IF v.items[1].kind = "None" \/ v.items[2].kind = "None" THEN Accept(v)
    ELSE IF v.items[1].n + DAYS_PER_YEAR > MAX_ORDINAL
        THEN Escape(v, "OverflowError", "date value out of range")
    ELSE IF v.items[1].kind # v.items[2].kind
        THEN Reject(v, NotComparable(python, v.items[1], v.items[2]))
    ELSE IF v.items[1].n + DAYS_PER_YEAR < v.items[2].n
        THEN Reject(v, "Dates must not be more than a year apart")
    ELSE Accept(v)

(***************************************************************************)
(* models.py: the request models.  Fields in declaration order, the wire   *)
(* name (alias) of each, and which are required.                           *)
(***************************************************************************)
FilterFields ==
    <<"exch_code", "mic_code", "currency", "market_sec_des", "security_type",
      "security_type_2", "include_unlisted_equities", "option_type", "strike",
      "contract_size", "coupon", "expiration", "maturity", "state_code">>

MappingJobFields == <<"id_type", "id_value">> \o FilterFields

QueryFields == <<"query", "start">> \o FilterFields

FieldsOf(model) == IF model = "MappingJob" THEN MappingJobFields ELSE QueryFields

Alias(f) ==
    CASE f = "id_type" -> "idType"
      [] f = "id_value" -> "idValue"
      [] f = "exch_code" -> "exchCode"
      [] f = "mic_code" -> "micCode"
      [] f = "market_sec_des" -> "marketSecDes"
      [] f = "security_type" -> "securityType"
      [] f = "security_type_2" -> "securityType2"
      [] f = "include_unlisted_equities" -> "includeUnlistedEquities"
      [] f = "option_type" -> "optionType"
      [] f = "contract_size" -> "contractSize"
      [] f = "state_code" -> "stateCode"
      [] OTHER -> f

NumberIntervalFields == {"strike", "contract_size", "coupon"}
DateIntervalFields == {"expiration", "maturity"}
IntervalFields == NumberIntervalFields \cup DateIntervalFields

RequiredFields(model) ==
    IF model = "MappingJob" THEN {"id_type", "id_value"} ELSE {"query"}

\* None as a value of field f, and the test `v is None`.
NoneOf(f) == IF f \in IntervalFields THEN NoneValue ELSE None
IsNone(f, v) == IF f \in IntervalFields THEN v.kind = "None" ELSE v = None

(***************************************************************************)
(* models.py: the cross-field validators.  Each returns how it ends: "ok"  *)
(* (it returns v), "ValueError" (it raises one, which pydantic records as  *)
(* a validation error of the field) or "KeyError" (the lookup in `values`  *)
(* raises, which pydantic does not catch).                                 *)
(***************************************************************************)
\* MappingJob.required_for_some_id_types, never raising.
IdTypesRuleSkipped(v, values) == "ok"

\* MappingJob.required_for_some_id_types(cls, v, values)
required_for_some_id_types(v, values) ==
    IF "id_type" \notin DOMAIN values THEN "KeyError"
    ELSE IF values["id_type"] \in {"BASE_TICKER", "ID_EXCH_SYMBOL"} /\ v = None
        THEN "ValueError"
    ELSE "ok"

\* MappingJob/Query.required_for_some_security_type_2(cls, v, values)
required_for_some_security_type_2(v, values) ==
    IF "security_type_2" \in DOMAIN values
        /\ values["security_type_2"] \in {"Option", "Warrant"}
        /\ v.kind = "None"
    THEN "ValueError"
    ELSE "ok"

\* MappingJob/Query.required_for_pool(cls, v, values)
required_for_pool(v, values) ==
    IF "security_type_2" \in DOMAIN values
        /\ values["security_type_2"] = "Pool"
        /\ v.kind = "None"
    THEN "ValueError"
    ELSE "ok"

\* The fields carrying a @validator(..., always=True), per model.
ValidatedAlways(model) ==
    IF model = "MappingJob" THEN {"security_type_2", "expiration", "maturity"}
    ELSE {"expiration", "maturity"}

\* The class validator of field f (a post-validator in pydantic's terms).
ClassValidator(model, f, v, values) ==
    CASE f = "security_type_2" /\ model = "MappingJob" -> required_for_some_id_types(v, values)
      [] f = "expiration" -> required_for_some_security_type_2(v, values)
      [] f = "maturity" -> required_for_pool(v, values)
      [] OTHER -> "ok"

\* The field's own type validation of a value that is not None.
TypeValidate(python, f, v) ==
    IF f \in NumberIntervalFields THEN NullableNumberInterval_validate(v)
    ELSE IF f \in DateIntervalFields THEN NullableDateInterval_validate(python, v)
    ELSE Accept(v)

(***************************************************************************)
(* Model(kwargs): pydantic's validation of the keyword arguments, field  *)
(* by field in declaration order.  st = [values, errors, exc]: the fields  *)
(* validated so far, the fields in error, and the exception that escaped.  *)
(***************************************************************************)
HasArg(kwargs, f) == Alias(f) \in DOMAIN kwargs \/ f \in DOMAIN kwargs
ArgOf(kwargs, f) == IF Alias(f) \in DOMAIN kwargs THEN kwargs[Alias(f)] ELSE kwargs[f]

\* The error of a field, located by the field's alias.
FieldError(st, f, msg) ==
    [st EXCEPT !.errors = Append(@, [loc |-> Alias(f), msg |-> msg])]

FieldValue(st, f, v) == [st EXCEPT !.values = @ @@ (f :> v)]

\* The exceptions of a validator pydantic turns into a validation error.
CaughtByPydantic == {"ValueError", "TypeError", "AssertionError"}

ApplyClassValidator(model, st, f, v) ==
    LET r == ClassValidator(model, f, v, st.values)
    IN  CASE r = "ok" -> FieldValue(st, f, v)
          [] r = "ValueError" -> FieldError(st, f, "value_error")
          [] OTHER -> [st EXCEPT !.exc = r]

ValidateField(python, model, st, f, v) ==
    IF IsNone(f, v)
    THEN IF f \in RequiredFields(model)
         THEN FieldError(st, f, "none is not an allowed value")
         ELSE ApplyClassValidator(model, st, f, v)
    ELSE LET r == TypeValidate(python, f, v)
         IN  IF r.ok THEN ApplyClassValidator(model, st, f, r.value)
             ELSE IF r.exc \in CaughtByPydantic THEN FieldError(st, f, r.error)
             ELSE [st EXCEPT !.exc = r.exc]

FieldStep(python, model, kwargs, st, f) ==
    IF st.exc # None THEN st
    ELSE IF ~HasArg(kwargs, f)
    THEN IF f \in RequiredFields(model) THEN FieldError(st, f, "field required")
         ELSE IF f \notin ValidatedAlways(model) THEN FieldValue(st, f, NoneOf(f))
         ELSE ValidateField(python, model, st, f, NoneOf(f))
    ELSE ValidateField(python, model, st, f, ArgOf(kwargs, f))

RECURSIVE ValidateFields(_, _, _, _, _)
ValidateFields(python, model, kwargs, i, st) ==
    IF i > Len(FieldsOf(model)) THEN st
    ELSE ValidateFields(python, model, kwargs, i + 1,
                        FieldStep(python, model, kwargs, st, FieldsOf(model)[i]))

Returned(v) == [kind |-> "return", exc |-> None, value |-> v, errors |-> <<>>]
Raised(exc, errors) == [kind |-> "raise", exc |-> exc, value |-> <<>>, errors |-> errors]

\* MappingJob(kwargs) / Query(kwargs)
ConstructOn(python, model, kwargs) ==
    LET st == ValidateFields(python, model, kwargs, 1,
                             [values |-> <<>>, errors |-> <<>>, exc |-> None])
    IN  IF st.exc # None THEN Raised(st.exc, <<>>)
        ELSE IF st.errors # <<>> THEN Raised("ValidationError", st.errors)
        ELSE Returned(st.values)

\* The same for keyword arguments that set no date interval to a datetime
\* beside a date, on which the interpreters agree.
Construct(model, kwargs) == ConstructOn("3.11", model, kwargs)

(***************************************************************************)
(* models.py: Model.json(exclude_none=True, by_alias=True).  The JSON of   *)
(* an interval item is [kind, n, s]: null, a number n, or the string s.    *)
(***************************************************************************)
Pad(n, width) ==
    LET digits == ToString(n)
    IN  CASE width - Len(digits) = 3 -> "000" \o digits
          [] width - Len(digits) = 2 -> "00" \o digits
          [] width - Len(digits) = 1 -> "0" \o digits
          [] OTHER -> digits

\* The (year, month, day) of a proleptic Gregorian ordinal (date.fromordinal).
YearMonthDay(ordinal) ==
    LET z == ordinal + 305
        era == z \div 146097
        doe == z - era * 146097
        yoe == (doe - doe \div 1460 + doe \div 36524 - doe \div 146096) \div 365
        doy == doe - (365 * yoe + yoe \div 4 - yoe \div 100)
        mp == (5 * doy + 2) \div 153
        d == doy - (153 * mp + 2) \div 5 + 1
        m == IF mp < 10 THEN mp + 3 ELSE mp - 9
        y == yoe + era * 400 + (IF m <= 2 THEN 1 ELSE 0)
    IN  <<y, m, d>>

\* What strftime's %Y writes for a year below 1000 is the platform's choice:
\* the digits alone where Python hands %Y to glibc (date(999, 1, 2) gives
\* "999-01-02"), four digits where the C library or Python pads ("0999-01-02").
\* The model declares json_encoders with either.
StrftimeEncoders == {"json_encoders", "json_encoders, %Y zero-padded"}

\* dt.date.strftime(v, "%Y-%m-%d") and dt.datetime.strftime(v, "%Y-%m-%d")
strftime(encoder, ordinal) ==
    LET ymd == YearMonthDay(ordinal)
        year == IF encoder = "json_encoders" THEN ToString(ymd[1]) ELSE Pad(ymd[1], 4)
    IN  year \o "-" \o Pad(ymd[2], 2) \o "-" \o Pad(ymd[3], 2)

\* dt.date.isoformat(), pydantic's default encoder of a date: "%04d-%02d-%02d".
isoformat(ordinal) ==
    LET ymd == YearMonthDay(ordinal)
    IN  Pad(ymd[1], 4) \o "-" \o Pad(ymd[2], 2) \o "-" \o Pad(ymd[3], 2)

\* json.dumps(..., default=encoder) on a date: the model's json_encoders
\* (strftime) for the model .json() is called on, pydantic_encoder otherwise.
EncodeDate(encoder, ordinal) ==
    IF encoder \in StrftimeEncoders THEN strftime(encoder, ordinal) ELSE isoformat(ordinal)

\* The same on a datetime (at midnight): json_encoders is looked up along the
\* class's MRO and finds the dt.date entry; pydantic_encoder writes
\* datetime.isoformat().
EncodeDatetime(encoder, ordinal) ==
    IF encoder \in StrftimeEncoders THEN strftime(encoder, ordinal)
    ELSE isoformat(ordinal) \o "T00:00:00"

\* json.dumps on an interval item; allow_nan is left on, so NaN is written as
\* the bare word NaN.
JsonItem(encoder, item) ==
    CASE item.kind = "None" -> [kind |-> "null", n |-> 0, s |-> ""]
      [] item.kind = "int" -> [kind |-> "number", n |-> item.n, s |-> ""]
      [] item.kind = "nan" -> [kind |-> "number", n |-> 0, s |-> "NaN"]
      [] item.kind = "date" -> [kind |-> "string", n |-> 0, s |-> EncodeDate(encoder, item.n)]
      [] item.kind = "datetime" ->
            [kind |-> "string", n |-> 0, s |-> EncodeDatetime(encoder, item.n)]
      [] OTHER -> [kind |-> "string", n |-> 0, s |-> "?"]

JsonValue(encoder, f, v) ==
    IF f \in IntervalFields THEN [i \in 1..Len(v.items) |-> JsonItem(encoder, v.items[i])]
    ELSE v

FieldOfAlias(model, a) ==
    CHOOSE f \in {FieldsOf(model)[i] : i \in 1..Len(FieldsOf(model))} : Alias(f) = a

\* The dict of obj (exclude_none=True, by_alias=True) as json.dumps writes it
\* with the given encoder.
Dump(encoder, model, obj) ==
    LET set == {f \in DOMAIN obj : ~IsNone(f, obj[f])}
    IN  [a \in {Alias(f) : f \in set} |->
            JsonValue(encoder, FieldOfAlias(model, a), obj[FieldOfAlias(model, a)])]

\* obj.json(exclude_none=True, by_alias=True): the encoder is that of obj's
\* own class, MappingJob and Query both declaring json_encoders.
JsonWith(encoder, model, obj) == Dump(encoder, model, obj)

\* The same for an object without a date before the year 1000, whose JSON
\* every platform writes alike.
Json(model, obj) == JsonWith("json_encoders", model, obj)

\* BulkMappingJob.parse_obj(mapping_jobs).json(exclude_none=True, by_alias=True)
\* The encoder is that of BulkMappingJob, which declares no json_encoders: the
\* json_encoders of the MappingJob items are not used.
BulkJson(jobs) == [i \in 1..Len(jobs) |-> Dump("pydantic_encoder", "MappingJob", jobs[i])]

(***************************************************************************)
(* The HTTP service: what requests.request may answer.  A response is      *)
(* [status_code, text, json]; `json` is what response.json() decodes.      *)
(***************************************************************************)
BoundedSeq(S, n) == UNION {[1..k -> S] : k \in 0..n}

\* The objects with an optional key k whose value is drawn from vals.
Optional(k, vals) == {<<>>} \cup {k :> v : v \in vals}

\* The items of a `data` array.  A FIGI stands for the object {"figi": FIGI};
\* the others are items that are no JSON object: JsonNull, NotAnObject for
\* those dict(item) refuses ("x", 5, true), EmptyItem for those it turns into
\* {} ("" and []), PairsItem for [["figi", "BBG000BLNNH6"]].
NotAnObject == "<not-an-object>"
EmptyItem == "<empty>"
PairsItem == "<pairs>"
FigiItems == {"BBG000BLNNH6", "BBG000BLNQ16"}

FailureResponses(json) ==
    { [status_code |-> 429, text |-> "Too Many Requests", json |-> json],
      [status_code |-> 204, text |-> "", json |-> json] }

\* /v3/mapping: a JSON array of per-job objects, or something that is no array
\* (NotAList for an object, string or number; NoneValue for the body null).
\* An object carries any of the keys data, warning and error; a value may be
\* malformed (an item of `data` that is no object, a null message).
MapElements ==
    { d @@ w @@ e :
        d \in Optional("data", {<<"BBG000BLNNH6">>, <<JsonNull, NotAnObject>>}),
        w \in Optional("warning", {"No identifier found."}),
        e \in Optional("error", {"Invalid idType."}) }
    \cup { [warning |-> JsonNull], [error |-> JsonArray],
           [data |-> <<EmptyItem, PairsItem>>] }

MapResponses ==
    { [status_code |-> 200, text |-> "", json |-> j] :
        j \in {List(items) : items \in BoundedSeq(MapElements, MaxResults)}
              \cup {NotAList, NoneValue} }
    \cup FailureResponses(NotAList)

\* /v3/filter: an object with optional data, next, error and total.
\* The values of `next`: two cursors, and a JSON null.
Cursors == {"c1", "c2", JsonNull}
PageData == {<<>>, <<"BBG000BLNNH6">>, <<"BBG000BLNQ16", "BBG000BLNNH6">>}

FilterResponses ==
    { [status_code |-> 200, text |-> "", json |-> j] :
        j \in { d @@ n : d \in Optional("data", PageData), n \in Optional("next", Cursors) }
              \cup { [error |-> "Invalid query."],
                     [error |-> "Invalid query.", data |-> <<JsonNull, NotAnObject>>,
                      next |-> "c1"] } }
    \cup FailureResponses(<<>>)

TotalResponses ==
    { [status_code |-> 200, text |-> "", json |-> t @@ d] :
        t \in Optional("total", {0, 15000}),
        d \in Optional("data", {<<>>}) }
    \cup FailureResponses(<<>>)

\* /v3/mapping/values/{key}: an object with an optional `values` array.
ValuesResponses ==
    { [status_code |-> 200, text |-> "", json |-> v] :
        v \in Optional("values", {<<>>, <<"TICKER", "ID_ISIN">>}) }
    \cup FailureResponses(<<>>)

(***************************************************************************)
(* How a client call ends.                                                 *)
(***************************************************************************)
Pending ==
    [kind |-> "pending", exc |-> None, status_code |-> 0, message |-> "", value |-> <<>>,
     errors |-> <<>>]
Return(v) ==
    [kind |-> "return", exc |-> None, status_code |-> 0, message |-> "", value |-> v,
     errors |-> <<>>]
Raise(exc, message) ==
    [kind |-> "raise", exc |-> exc, status_code |-> 0, message |-> message, value |-> <<>>,
     errors |-> <<>>]
HTTPError(status_code, message) ==
    [kind |-> "raise", exc |-> "HTTPError", status_code |-> status_code,
     message |-> message, value |-> <<>>, errors |-> <<>>]
\* pydantic's ValidationError with the messages of its errors, in order.
ValidationError(errors) ==
    [kind |-> "raise", exc |-> "ValidationError", status_code |-> 0, message |-> "",
     value |-> <<>>, errors |-> errors]

\* The entries of `net`.
Request(method, url, hdrs, data) ==
    [type |-> "request", method |-> method, url |-> url, headers |-> hdrs, data |-> data]
Sleep(delay) == [type |-> "sleep", delay |-> delay]
Response(response) ==
    [type |-> "response", status_code |-> response.status_code,
     text |-> response.text, json |-> response.json]

\* OpenFigi._request raising on 4xx and 5xx only.
RequestRaisesOnErrorStatus(response) == response.status_code >= 400

\* OpenFigi._request: whether it raises HTTPError(status_code, text).
RequestRaises(response) == response.status_code # 200

(***************************************************************************)
(* models.py: the response models, and pydantic's parse_obj_as.            *)
(***************************************************************************)
\* FigiResult.validate(item): FigiResult(**item) for an object, and
\* FigiResult(**dict(item)) for an item that is none.
FigiResult(item) ==
    CASE item = EmptyItem -> [figi |-> None]
      [] item = PairsItem -> [figi |-> "BBG000BLNNH6"]
      [] OTHER -> [figi |-> item]

\* The error of one item of a list[FigiResult], "" when it has none.
FigiItemError(item) ==
    CASE item = JsonNull -> "none is not an allowed value"
      [] item = NotAnObject -> "value is not a valid dict"
      [] OTHER -> ""

\* The messages of a sequence of errors, those of in-error entries in order.
RECURSIVE Messages(_)
Messages(errors) ==
    IF errors = <<>> THEN <<>>
    ELSE (IF Head(errors) = "" THEN <<>> ELSE <<Head(errors)>>) \o Messages(Tail(errors))

\* The errors of list[FigiResult] on the JSON array, one per refused item.
FigiListErrors(data) == Messages([i \in 1..Len(data) |-> FigiItemError(data[i])])
\* Whether list[FigiResult] accepts the JSON array.
FigiListValid(data) == FigiListErrors(data) = <<>>

\* The error of `str` on the JSON value, "" when it accepts it.
StrError(v) ==
    CASE v = JsonNull -> "none is not an allowed value"
      [] v = JsonArray -> "str type expected"
      [] OTHER -> ""
\* Whether `str` accepts the JSON value.
StrValid(v) == StrError(v) = ""

InvalidResult == [variant |-> "<invalid>"]

\* The errors of the three members of the union on an element none of them
\* validates, in declaration order.
MemberErrors(e) ==
    (IF "data" \in DOMAIN e THEN FigiListErrors(e["data"]) ELSE <<"field required">>)
    \o (IF "warning" \in DOMAIN e THEN Messages(<<StrError(e["warning"])>>)
        ELSE <<"field required">>)
    \o (IF "error" \in DOMAIN e THEN Messages(<<StrError(e["error"])>>)
        ELSE <<"field required">>)

\* MappingJobResult = FigiList | FigiNotFound | Error: the first member of the
\* union that validates the element, in declaration order.
MappingJobResult(e) ==
    IF "data" \in DOMAIN e /\ FigiListValid(e["data"])
    THEN [variant |-> "MappingJobResultFigiList",
          data |-> [i \in 1..Len(e["data"]) |-> FigiResult(e["data"][i])]]
    ELSE IF "warning" \in DOMAIN e /\ StrValid(e["warning"])
    THEN [variant |-> "MappingJobResultFigiNotFound", warning |-> e["warning"]]
    ELSE IF "error" \in DOMAIN e /\ StrValid(e["error"])
    THEN [variant |-> "MappingJobResultError", error |-> e["error"]]
    ELSE InvalidResult

\* The errors of all the elements of a JSON array, in order.
RECURSIVE ElementErrors(_)
ElementErrors(items) ==
    IF items = <<>> THEN <<>>
    ELSE (IF MappingJobResult(Head(items)) = InvalidResult THEN MemberErrors(Head(items))
          ELSE <<>>) \o ElementErrors(Tail(items))

\* parse_obj_as(list[MappingJobResult], result)
ParseMappingJobResults(json) ==
    IF json.kind = "None" THEN ValidationError(<<"none is not an allowed value">>)
    ELSE IF json.kind # "list" THEN ValidationError(<<"value is not a valid list">>)
    ELSE LET parsed == [i \in 1..Len(json.items) |-> MappingJobResult(json.items[i])]
         IN  IF \E i \in 1..Len(parsed) : parsed[i] = InvalidResult
             THEN ValidationError(ElementErrors(json.items))
             ELSE Return(parsed)

\* parse_obj_as(list[FigiResult], mapping_job_results)
ParseFigiResults(data) ==
    IF FigiListValid(data) THEN Return([i \in 1..Len(data) |-> FigiResult(data[i])])
    ELSE ValidationError(FigiListErrors(data))

(***************************************************************************)
(* The caller: the MappingJob lists and Query objects it builds.           *)
(***************************************************************************)
\* The lists submitted to map(): a few short ones, and one job repeated up to
\* and just past each limit (as tests/test_wrapper.py does: [job] * 11).
Repeat(job, n) == [i \in 1..n |-> job]
\* tests/test_wrapper.py, line 77: exchange_code is no field of MappingJob
\* and is ignored.
FirstJob ==
    Construct("MappingJob",
              [id_type |-> "TICKER", id_value |-> "IBM", exchange_code |-> "US"]).value
\* tests/test_models/test_mapping_job.py, lines 52-62.
SecondJob ==
    Construct("MappingJob",
              [id_type |-> "TICKER", id_value |-> "IBM", security_type_2 |-> "Pool",
               maturity |-> List(<<NoneItem, Date(738885)>>)]).value
JobLists ==
    { <<>>, <<FirstJob>>, <<SecondJob, FirstJob>> }
    \cup { Repeat(FirstJob, limit + d) :
             limit \in {MAX_MAPPING_JOBS_NO_KEY, MAX_MAPPING_JOBS_KEY}, d \in {0, 1} }

QueryKwargs ==
    { [query |-> "SJIM"],
      [query |-> "CTA", start |-> "c0", exchCode |-> "US"] }

Keys == {"idType", "exchCode", "micCode", "currency", "marketSecDes",
         "securityType", "securityType2", "stateCode"}

\* get_id_types ... get_state_codes: the accessor of each key.
Accessor(key) ==
    CASE key = "idType" -> "get_id_types"
      [] key = "exchCode" -> "get_exch_codes"
      [] key = "micCode" -> "get_mic_codes"
      [] key = "currency" -> "get_currencies"
      [] key = "marketSecDes" -> "get_market_sec_des"
      [] key = "securityType" -> "get_security_types"
      [] key = "securityType2" -> "get_security_types_2"
      [] OTHER -> "get_state_codes"

(***************************************************************************)
(* wrapper.py: the client operations.                                      *)
(***************************************************************************)
\* filter()'s delay without the extra half second.
DelayWithoutExtra(key) == 60000 \div max_search_requests(key)

\* filter(): delay = 60 / self.max_search_requests + 0.5, in milliseconds.
Delay(key) == 60000 \div max_search_requests(key) + 500

\* The caller builds a Query (models.py, Query).
NewQuery(kw) ==
    /\ pc = "idle"
    /\ op = "none"
    /\ Construct("Query", kw).kind = "return"
    /\ query' = Construct("Query", kw).value
    /\ UNCHANGED <<api_key, op, pc, mapping_jobs, result, mapping_job_results,
                   net, outcome, arg, ret>>

\* The number of entries of one type in a log.
Count(log, type) == Cardinality({i \in 1..Len(log) : log[i].type = type})

\* OpenFigi.map(mapping_jobs), lines 90-100: the quota test and, past it, the
\* request, on whose response the call then waits.
Map(jobs) ==
    /\ pc = "idle"
    /\ op = "none"
    /\ op' = "map"
    /\ mapping_jobs' = jobs
    /\ mapping_job_results' = <<>>
    /\ result' = NotAList
    /\ IF Len(jobs) > max_mapping_jobs(api_key)
       THEN /\ net' = <<>>
            /\ pc' = "idle"
            /\ outcome' = Raise("TooManyMappingJobs",
                   IF Truthy(api_key) THEN "with API key" ELSE "without API key")
       ELSE /\ net' = <<Request("POST", BASE_URL \o "/v3/mapping", headers(api_key),
                               BulkJson(jobs))>>
            /\ pc' = "sent"
            /\ outcome' = Pending
    /\ UNCHANGED <<api_key, query, arg, ret>>

\* OpenFigi.map, lines 100-102, once the response is there.
MapReceive(response) ==
    /\ pc = "sent"
    /\ op = "map"
    /\ net' = Append(net, Response(response))
    /\ pc' = "idle"
    /\ IF RequestRaises(response)
       THEN /\ result' = NotAList
            /\ outcome' = HTTPError(response.status_code, response.text)
       ELSE /\ result' = response.json
            /\ outcome' = ParseMappingJobResults(response.json)
    /\ UNCHANGED <<api_key, op, mapping_jobs, query, mapping_job_results, arg, ret>>

\* OpenFigi.get_id_types ... get_state_codes, through _get_values(key), lines
\* 166-168: the request.
GetValues(key) ==
    /\ pc = "idle"
    /\ op = "none"
    /\ op' = Accessor(key)
    /\ mapping_job_results' = <<>>
    /\ result' = <<>>
    /\ net' = <<Request("GET", BASE_URL \o "/v3/mapping/values/" \o key,
                        headers(api_key), None)>>
    /\ pc' = "sent"
    /\ outcome' = Pending
    /\ UNCHANGED <<api_key, mapping_jobs, query, arg, ret>>

\* OpenFigi._get_values, lines 168-170, once the response is there.
GetValuesReceive(response) ==
    /\ pc = "sent"
    /\ op \in {Accessor(key) : key \in Keys}
    /\ net' = Append(net, Response(response))
    /\ pc' = "idle"
    /\ IF RequestRaises(response)
       THEN /\ result' = <<>>
            /\ outcome' = HTTPError(response.status_code, response.text)
       ELSE /\ result' = response.json
            /\ outcome' = IF "values" \in DOMAIN response.json
                          THEN Return(response.json["values"])
                          ELSE Raise("KeyError", "values")
    /\ UNCHANGED <<api_key, op, mapping_jobs, query, mapping_job_results, arg, ret>>

\* OpenFigi.get_total_number_of_matches(query), lines 215-219: the request.
GetTotalNumberOfMatches ==
    /\ pc = "idle"
    /\ op = "none"
    /\ op' = "get_total_number_of_matches"
    /\ mapping_job_results' = <<>>
    /\ result' = <<>>
    /\ net' = <<Request("POST", BASE_URL \o "/v3/filter", headers(api_key),
                        Json("Query", query))>>
    /\ pc' = "sent"
    /\ outcome' = Pending
    /\ UNCHANGED <<api_key, mapping_jobs, query, arg, ret>>

\* OpenFigi.get_total_number_of_matches, lines 219-221, once the response is
\* there.
GetTotalReceive(response) ==
    /\ pc = "sent"
    /\ op = "get_total_number_of_matches"
    /\ net' = Append(net, Response(response))
    /\ pc' = "idle"
    /\ IF RequestRaises(response)
       THEN /\ result' = <<>>
            /\ outcome' = HTTPError(response.status_code, response.text)
       ELSE /\ result' = response.json
            /\ outcome' = IF "total" \in DOMAIN response.json
                          THEN Return(response.json["total"])
                          ELSE Raise("KeyError", "total")
    /\ UNCHANGED <<api_key, op, mapping_jobs, query, mapping_job_results, arg, ret>>

\* filter(): mapping_job_results += result["data"], replacing instead of appending.
AccumulateLastPage(results, data) == data

\* filter(): mapping_job_results += result["data"]
Accumulate(results, data) == results \o data

\* OpenFigi.filter(query), lines 183-188: the first request.
FilterFirst ==
    /\ pc = "idle"
    /\ op = "none"
    /\ op' = "filter"
    /\ mapping_job_results' = <<>>
    /\ result' = <<>>
    /\ net' = <<Request("POST", BASE_URL \o "/v3/filter", headers(api_key),
                        Json("Query", query))>>
    /\ pc' = "sent"
    /\ outcome' = Pending
    /\ UNCHANGED <<api_key, mapping_jobs, query, arg, ret>>

\* OpenFigi.filter, once a response is there: lines 188-196 for the response
\* to the first request, lines 200-201 and the loop test of line 196 for a
\* later one, and the return of line 203 when the loop ends.
FilterReceive(response) ==
    /\ pc = "sent"
    /\ op = "filter"
    /\ net' = Append(net, Response(response))
    /\ LET first == Count(net, "response") = 0
           json == response.json
       IN  IF RequestRaises(response)
           THEN /\ UNCHANGED <<result, mapping_job_results>>
                /\ outcome' = HTTPError(response.status_code, response.text)
                /\ pc' = "idle"
           ELSE /\ result' = json
                /\ IF first /\ "error" \in DOMAIN json
                   THEN /\ UNCHANGED mapping_job_results
                        /\ outcome' = Raise("FilterQueryError", json["error"])
                        /\ pc' = "idle"
                   ELSE IF "data" \notin DOMAIN json
                   THEN /\ UNCHANGED mapping_job_results
                        /\ outcome' = Raise("KeyError", "data")
                        /\ pc' = "idle"
                   ELSE /\ mapping_job_results' =
                              IF first THEN json["data"]
                              ELSE Accumulate(mapping_job_results, json["data"])
                        /\ IF "next" \in DOMAIN json
                           THEN outcome' = Pending /\ pc' = "paging"
                           ELSE /\ outcome' = ParseFigiResults(mapping_job_results')
                                /\ pc' = "idle"
    /\ UNCHANGED <<api_key, op, mapping_jobs, query, arg, ret>>

\* OpenFigi.filter, line 197: time.sleep(delay)
FilterSleep ==
    /\ pc = "paging"
    /\ Count(net, "request") < MaxPages
    /\ net' = Append(net, Sleep(Delay(api_key)))
    /\ pc' = "slept"
    /\ UNCHANGED <<api_key, op, mapping_jobs, query, result, mapping_job_results,
                   outcome, arg, ret>>

\* filter()'s cursor assignment leaving the Query as it was.
StartNotAssigned(q, cursor) == q

\* response.json() decodes a JSON null to None.
FromJson(v) == IF v = JsonNull THEN None ELSE v

\* filter(), line 198: query.start = result["next"]
AssignStart(q, cursor) == [q EXCEPT !["start"] = FromJson(cursor)]

\* OpenFigi.filter, lines 198-200: the cursor goes into the caller's Query,
\* which is serialised and sent.
FilterNext ==
    /\ pc = "slept"
    /\ query' = AssignStart(query, result["next"])
    /\ net' = Append(net, Request("POST", BASE_URL \o "/v3/filter", headers(api_key),
                                  Json("Query", query')))
    /\ pc' = "sent"
    /\ UNCHANGED <<api_key, op, mapping_jobs, result, mapping_job_results,
                   outcome, arg, ret>>

\* The caller takes the outcome of a finished call; the call's frame is gone
\* (tests/test_wrapper.py calls the client again and again in a loop).
Finish ==
    /\ pc = "idle"
    /\ op # "none"
    /\ op' = "none"
    /\ mapping_jobs' = <<>>
    /\ result' = <<>>
    /\ mapping_job_results' = <<>>
    /\ net' = <<>>
    /\ outcome' = Pending
    /\ UNCHANGED <<api_key, pc, query, arg, ret>>

NoCall == [fn |-> "none", v |-> NoneValue, kwargs |-> <<>>]
NoRet == [kind |-> "pending"]

Init ==
    /\ api_key \in ApiKeys
    /\ op = "none"
    /\ pc = "idle"
    /\ mapping_jobs = <<>>
    /\ query \in {Construct("Query", kw).value : kw \in QueryKwargs}
    /\ result = <<>>
    /\ mapping_job_results = <<>>
    /\ net = <<>>
    /\ outcome = Pending
    /\ arg = NoCall
    /\ ret = NoRet

Next ==
    \/ \E kw \in QueryKwargs : NewQuery(kw)
    \/ \E jobs \in JobLists : Map(jobs)
    \/ \E response \in MapResponses : MapReceive(response)
    \/ \E key \in Keys : GetValues(key)
    \/ \E response \in ValuesResponses : GetValuesReceive(response)
    \/ GetTotalNumberOfMatches
    \/ \E response \in TotalResponses : GetTotalReceive(response)
    \/ FilterFirst
    \/ \E response \in FilterResponses : FilterReceive(response)
    \/ FilterSleep
    \/ FilterNext
    \/ Finish

Spec == Init /\ [][Next]_vars

(***************************************************************************)
(* Properties of the client (specification Spec).                          *)
(***************************************************************************)
\* The entries of one type of the current call's log, in order.
Indices(type) == {i \in 1..Len(net) : net[i].type = type}
FinishedCall(name) == op = name /\ pc = "idle" /\ outcome.kind # "pending"

\* A credential is a non-empty API key.
HasCredential == api_key # None /\ api_key # ""
ClaimedJobLimit == IF HasCredential THEN 100 ELSE 10

\* C1: map(jobs) raises TooManyMappingJobs and issues no HTTP request when
\* len(jobs) exceeds 10 without a credential, 100 with one; at or below the
\* limit it raises no quota error and issues exactly one POST carrying all jobs.
C1_MapQuota ==
    op = "map" =>
        IF Len(mapping_jobs) > ClaimedJobLimit
        THEN /\ outcome.kind = "raise"
             /\ outcome.exc = "TooManyMappingJobs"
             /\ net = <<>>
        ELSE /\ outcome.exc # "TooManyMappingJobs"
             /\ Count(net, "request") = 1
             /\ net[1].type = "request"
             /\ net[1].method = "POST"
             /\ Len(net[1].data) = Len(mapping_jobs)
             /\ \A i \in 1..Len(mapping_jobs) :
                    /\ net[1].data[i]["idType"] = mapping_jobs[i]["id_type"]
                    /\ net[1].data[i]["idValue"] = mapping_jobs[i]["id_value"]

\* C1 witness: a credentialed client refused 101 jobs without any request.
C1_Witness ==
    /\ op = "map"
    /\ HasCredential
    /\ Len(mapping_jobs) = 101
    /\ outcome.exc = "TooManyMappingJobs"
    /\ net = <<>>

\* C2: whatever the service answers with status 200, map() returns exactly one
\* result per submitted job or fails; it never returns a list of another length.
C2_OneResultPerJob ==
    (op = "map" /\ outcome.kind = "return") =>
        Len(outcome.value) = Len(mapping_jobs)

\* The variant the claim assigns to an element by the key it carries.
ClaimedVariant(e) ==
    CASE "data" \in DOMAIN e -> "MappingJobResultFigiList"
      [] "warning" \in DOMAIN e -> "MappingJobResultFigiNotFound"
      [] "error" \in DOMAIN e -> "MappingJobResultError"
      [] OTHER -> "<none>"

\* C3: every element of the array returned to map() becomes the variant of the
\* key it carries (data: success, warning: not found, error: error), and an
\* element carrying none of the three keys makes map() fail.
C3_VariantByKey ==
    (op = "map" /\ outcome.exc \notin {"TooManyMappingJobs", "HTTPError"}
                /\ result.kind = "list") =>
        /\ (\E i \in 1..Len(result.items) : ClaimedVariant(result.items[i]) = "<none>")
               => outcome.kind = "raise"
        /\ outcome.kind = "return" =>
               /\ Len(outcome.value) = Len(result.items)
               /\ \A i \in 1..Len(result.items) :
                      outcome.value[i].variant = ClaimedVariant(result.items[i])

\* The `data` arrays of the responses of the current call, concatenated in
\* arrival order.
RECURSIVE PagesFrom(_)
PagesFrom(i) ==
    IF i > Len(net) THEN <<>>
    ELSE IF net[i].type = "response" /\ "data" \in DOMAIN net[i].json
         THEN net[i].json["data"] \o PagesFrom(i + 1)
         ELSE PagesFrom(i + 1)

\* The server answered the call with successful pages only, all but the last
\* carrying a `next` cursor.
SuccessfulPages ==
    /\ Indices("response") # {}
    /\ \A i \in Indices("response") :
          /\ net[i].status_code = 200
          /\ DOMAIN net[i].json \subseteq {"data", "next"}
          /\ "data" \in DOMAIN net[i].json
          /\ ("next" \in DOMAIN net[i].json) <=> (i < Len(net))

\* C4: answered with n successful pages, the first n-1 with a `next` cursor,
\* filter() issues n POSTs, sleeps n-1 times, once between two consecutive
\* requests, and returns the n `data` arrays concatenated in order.
C4_Pagination ==
    (FinishedCall("filter") /\ SuccessfulPages) =>
        LET n == Count(net, "response")
        IN  /\ Count(net, "request") = n
            /\ \A i \in Indices("request") : net[i].method = "POST"
            /\ Count(net, "sleep") = n - 1
            /\ \A i \in 1..Len(net) :
                   net[i].type = (CASE i % 3 = 1 -> "request"
                                    [] i % 3 = 2 -> "response"
                                    [] OTHER -> "sleep")
            /\ outcome.kind = "return"
            /\ outcome.value = [i \in 1..Len(PagesFrom(1)) |-> [figi |-> PagesFrom(1)[i]]]

\* C4 witness: three pages, of which two are not empty, were concatenated.
C4_Witness ==
    /\ FinishedCall("filter")
    /\ SuccessfulPages
    /\ Count(net, "response") = 3
    /\ Count(net, "sleep") = 2
    /\ net[2].json["data"] = <<"BBG000BLNQ16", "BBG000BLNNH6">>
    /\ net[8].json["data"] = <<"BBG000BLNNH6">>
    /\ Len(outcome.value) >= 3

\* C5: a response with an `error` key, to the first request or to a later one,
\* makes filter() fail with FilterQueryError carrying that message.
C5_FilterQueryError ==
    op = "filter" =>
        \A i \in Indices("response") :
            (net[i].status_code = 200 /\ "error" \in DOMAIN net[i].json) =>
                /\ outcome.kind = "raise"
                /\ outcome.exc = "FilterQueryError"
                /\ outcome.message = net[i].json["error"]

\* C6: in every operation a response whose status is not 200 ends the call at
\* once with HTTPError carrying the status code and the body: it is the last
\* entry of the call's log and nothing is returned.
C6_HTTPError ==
    \A i \in Indices("response") :
        net[i].status_code # 200 =>
            /\ i = Len(net)
            /\ pc = "idle"
            /\ outcome.kind = "raise"
            /\ outcome.exc = "HTTPError"
            /\ outcome.status_code = net[i].status_code
            /\ outcome.message = net[i].text
            /\ outcome.value = <<>>

\* C6 witness: the second request of a filter() call was answered 429.
C6_Witness ==
    /\ op = "filter"
    /\ Len(net) = 5
    /\ net[5].type = "response"
    /\ net[5].status_code = 429
    /\ outcome.exc = "HTTPError"
    /\ outcome.status_code = 429

(***************************************************************************)
(* models.py on its own: constructions of a MappingJob (SpecJob) and calls *)
(* of the two interval validators (SpecInterval), for inputs drawn from    *)
(* bounded sets.  The client is not involved and stays as constructed.     *)
(***************************************************************************)
NoClient ==
    /\ api_key = None
    /\ op = "none"
    /\ pc = "idle"
    /\ mapping_jobs = <<>>
    /\ query = Construct("Query", [query |-> "SJIM"]).value
    /\ result = <<>>
    /\ mapping_job_results = <<>>
    /\ net = <<>>
    /\ outcome = Pending

\* 2023-01-01 (date.toordinal), and the dates around it and around one year later.
Epoch == 738521
Dates ==
    {Epoch + d : d \in (0..DateSlack)
                       \cup ((DAYS_PER_YEAR - DateSlack)..(DAYS_PER_YEAR + DateSlack))}
\* The last dates a year can still be added to, and the first it cannot
\* (9998-12-31 is date.max - 365 days).
LateDates == {MAX_ORDINAL - DAYS_PER_YEAR + d : d \in 0..DateSlack}
Numbers == (0 - 1)..MaxNum

\* None, a str, ints, float('nan'), dates and a datetime (2023-01-01 00:00).
Items ==
    {NoneItem, StrItem, NaN, Datetime(Epoch)}
        \cup {Num(n) : n \in Numbers}
        \cup {Date(d) : d \in Dates \cup LateDates}
RawValues == {NoneValue, NotAList} \cup {List(items) : items \in BoundedSeq(Items, MaxLen)}

\* The keyword arguments of MappingJob(...): id_type and the fields of the
\* three cross-field rules, each missing, None or given.
\* tests/test_models/test_mapping_job.py, line 33: 2024-01-01 to 2024-06-30.
ValidDateInterval == List(<<Date(738886), Date(739067)>>)
InvalidDateInterval == List(<<NoneItem, NoneItem>>)
MappingJobKwargs ==
    { t @@ v @@ s @@ e @@ m :
        t \in Optional("id_type", {None, "TICKER", "BASE_TICKER", "ID_EXCH_SYMBOL"}),
        v \in Optional("id_value", {"IBM"}),
        s \in Optional("security_type_2", {None, "Common Stock", "Option", "Warrant", "Pool"}),
        e \in Optional("expiration", {NoneValue, ValidDateInterval, InvalidDateInterval}),
        m \in Optional("maturity", {NoneValue, ValidDateInterval}) }

\* MappingJob(kwargs)
ConstructMappingJob ==
    /\ arg.fn = "MappingJob"
    /\ ret = NoRet
    /\ \E python \in Pythons : ret' = ConstructOn(python, "MappingJob", arg.kwargs)
    /\ UNCHANGED <<clientVars, arg>>

\* NullableNumberInterval.validate(v)
ValidateNumberInterval ==
    /\ arg.fn = "NullableNumberInterval.validate"
    /\ ret = NoRet
    /\ ret' = NullableNumberInterval_validate(arg.v)
    /\ UNCHANGED <<clientVars, arg>>

\* NullableDateInterval.validate(v)
ValidateDateInterval ==
    /\ arg.fn = "NullableDateInterval.validate"
    /\ ret = NoRet
    /\ \E python \in Pythons : ret' = NullableDateInterval_validate(python, arg.v)
    /\ UNCHANGED <<clientVars, arg>>

InitJob ==
    /\ NoClient
    /\ arg \in {[fn |-> "MappingJob", v |-> NoneValue, kwargs |-> kw] : kw \in MappingJobKwargs}
    /\ ret = NoRet

NextJob == ConstructMappingJob

SpecJob == InitJob /\ [][NextJob]_vars

InitInterval ==
    /\ NoClient
    /\ arg \in {[fn |-> f, v |-> v, kwargs |-> <<>>] :
                  f \in {"NullableNumberInterval.validate", "NullableDateInterval.validate"},
                  v \in RawValues}
    /\ ret = NoRet

NextInterval == ValidateNumberInterval \/ ValidateDateInterval

SpecInterval == InitInterval /\ [][NextInterval]_vars

\* The call of `arg` has been made and `ret` is how it ended.
Called(fn) == arg.fn = fn /\ ret # NoRet

(***************************************************************************)
(* Properties of the request models (SpecJob, SpecInterval).               *)
(***************************************************************************)
Given(k) == k \in DOMAIN arg.kwargs
GivenString(k) == Given(k) /\ arg.kwargs[k] # None
GivenInterval(k) == Given(k) /\ arg.kwargs[k].kind # "None"

\* Each field value is valid on its own: the required fields are strings and
\* the intervals given are valid intervals.
FieldValuesValid ==
    /\ GivenString("id_type")
    /\ GivenString("id_value")
    /\ GivenInterval("expiration") => arg.kwargs["expiration"] = ValidDateInterval
    /\ GivenInterval("maturity") => arg.kwargs["maturity"] = ValidDateInterval

CrossFieldRules ==
    /\ arg.kwargs["id_type"] \in {"BASE_TICKER", "ID_EXCH_SYMBOL"}
           => GivenString("security_type_2")
    /\ (GivenString("security_type_2")
            /\ arg.kwargs["security_type_2"] \in {"Option", "Warrant"})
           => GivenInterval("expiration")
    /\ (GivenString("security_type_2") /\ arg.kwargs["security_type_2"] = "Pool")
           => GivenInterval("maturity")

\* C7: with field values valid on their own, MappingJob(...) succeeds exactly
\* when the three cross-field rules hold (id_type BASE_TICKER/ID_EXCH_SYMBOL
\* needs security_type_2; Option/Warrant needs expiration; Pool needs maturity);
\* otherwise it fails with a validation error and produces no object.
C7_CrossFieldRules ==
    (Called("MappingJob") /\ FieldValuesValid) =>
        /\ (ret.kind = "return") <=> CrossFieldRules
        /\ ret.kind # "return" =>
               /\ ret.kind = "raise"
               /\ ret.exc = "ValidationError"
               /\ ret.value = <<>>

\* C7 witness: BASE_TICKER without security_type_2 was refused.
C7_Witness ==
    /\ Called("MappingJob")
    /\ FieldValuesValid
    /\ arg.kwargs["id_type"] = "BASE_TICKER"
    /\ ~Given("security_type_2")
    /\ ret.kind = "raise"
    /\ ret.exc = "ValidationError"

\* A number (float('nan') is a float) or null; a date or null.
IsNumberOrNull(item) == item.kind \in {"int", "nan", "None"}
IsDateOrNull(item) == item.kind \in {"date", "None"}
\* low <= high for two numbers: no comparison with NaN is true.
LowAtMostHigh(a, b) == a.kind = "int" /\ b.kind = "int" /\ a.n <= b.n

\* C8: the numeric validator accepts exactly the lists of two elements, each a
\* number or null, not both null, with low <= high when both are numbers, and
\* returns an accepted value unchanged.
C8_NumberInterval ==
    Called("NullableNumberInterval.validate") =>
        /\ ret.ok <=>
              /\ arg.v.kind = "list"
              /\ Len(arg.v.items) = 2
              /\ IsNumberOrNull(arg.v.items[1]) /\ IsNumberOrNull(arg.v.items[2])
              /\ ~(arg.v.items[1].kind = "None" /\ arg.v.items[2].kind = "None")
              /\ (arg.v.items[1].kind # "None" /\ arg.v.items[2].kind # "None")
                     => LowAtMostHigh(arg.v.items[1], arg.v.items[2])
        /\ ret.ok => ret.value = arg.v

\* C9: for a list of dates-or-null the date validator accepts [a, b] with both
\* present exactly when b - a <= 365 days, always accepts [a, null] and
\* [null, b], never [null, null], and never a list of another length than 2.
C9_DateInterval ==
    (Called("NullableDateInterval.validate") /\ arg.v.kind = "list"
        /\ \A i \in 1..Len(arg.v.items) : IsDateOrNull(arg.v.items[i])) =>
        ret.ok <=>
            /\ Len(arg.v.items) = 2
            /\ ~(arg.v.items[1].kind = "None" /\ arg.v.items[2].kind = "None")
            /\ (arg.v.items[1].kind = "date" /\ arg.v.items[2].kind = "date")
                   => arg.v.items[2].n - arg.v.items[1].n <= 365

\* C10: an accepted date interval with both dates present has its dates no
\* more than 365 days apart, whichever of the two comes first in the list.
C10_WithinOneYear ==
    (Called("NullableDateInterval.validate") /\ ret.ok
        /\ arg.v.items[1].kind = "date" /\ arg.v.items[2].kind = "date") =>
        /\ arg.v.items[2].n - arg.v.items[1].n <= 365
        /\ arg.v.items[1].n - arg.v.items[2].n <= 365

(***************************************************************************)
(* Further properties of the client (specification Spec).                  *)
(***************************************************************************)
\* The headers and tier limits the credential calls for, in the current state:
\* the client's own headers and limits, and the headers of every request sent.
TierInForce ==
    LET h == headers(api_key)
        keySent == "X-OPENFIGI-APIKEY" \in DOMAIN h
    IN  /\ DOMAIN h \subseteq {"Content-Type", "X-OPENFIGI-APIKEY"}
        /\ "Content-Type" \in DOMAIN h
        /\ h["Content-Type"] = "application/json"
        /\ keySent <=> HasCredential
        /\ keySent => h["X-OPENFIGI-APIKEY"] = api_key
        /\ max_mapping_jobs(api_key) = (IF keySent THEN 100 ELSE 10)
        /\ max_search_requests(api_key) = (IF keySent THEN 20 ELSE 5)
        /\ max_mapping_requests(api_key) = (IF keySent THEN 250 ELSE 25)
        /\ \A i \in Indices("request") : net[i].headers = h

\* C11: at every point of a client's life the headers hold Content-Type:
\* application/json, hold X-OPENFIGI-APIKEY equal to the credential exactly
\* when a (non-empty) credential was supplied, the tier limits are the
\* credentialed ones exactly when that header is sent, and no operation
\* changes the credential.
C11_HeadersAndTier == []TierInForce /\ [][api_key' = api_key]_vars

\* C11 witness: a credentialed client sent the second request of a filter()
\* call with the key header.
C11_Witness ==
    /\ op = "filter"
    /\ api_key = "XXXXXXXXXX"
    /\ Len(net) >= 5
    /\ net[4].type = "request"
    /\ net[4].headers = ("Content-Type" :> "application/json")
                            @@ ("X-OPENFIGI-APIKEY" :> "XXXXXXXXXX")

(***************************************************************************)
(* Several threads calling one client (specification SpecThreads).  Every  *)
(* per-call variable (op, pc, result, mapping_job_results, net, outcome,   *)
(* arg) is here a function of the thread, and `query` maps each Query      *)
(* object the callers hold to its value: two threads may pass the same     *)
(* object.  A thread is switched out while it waits for a response or      *)
(* sleeps, and between any two statements.                                 *)
(***************************************************************************)
Threads == {"t1", "t2"}
QueryObjects == {"q1", "q2"}

\* The Query objects of the callers, as constructed.
QueryHeap ==
    [q \in QueryObjects |->
        IF q = "q1" THEN Construct("Query", [query |-> "SJIM"]).value
        ELSE Construct("Query", [query |-> "CTA", start |-> "c0", exchCode |-> "US"]).value]

\* The calls a thread may make: fn(q) for the operations taking a Query,
\* map([FirstJob]) and get_id_types().
ThreadCalls ==
    { [fn |-> fn, q |-> q] :
        fn \in {"filter", "get_total_number_of_matches"}, q \in QueryObjects }
    \cup { [fn |-> "map", q |-> None], [fn |-> "get_id_types", q |-> None] }

\* What the service answers to the threads.
ThreadMapResponses ==
    { r \in MapResponses :
        r.status_code = 429 \/ r.json = List(<<[data |-> <<"BBG000BLNNH6">>]>>) }
ThreadValuesResponses ==
    { r \in ValuesResponses : r.status_code = 200 /\ "values" \in DOMAIN r.json }
ThreadTotalResponses ==
    { r \in TotalResponses : r.status_code = 200 /\ DOMAIN r.json = {"total"} }
ThreadFilterResponses ==
    { r \in FilterResponses :
        \/ r.status_code = 429
        \/ r.status_code = 200 /\ "data" \in DOMAIN r.json /\ "error" \notin DOMAIN r.json
              /\ Len(r.json["data"]) = (IF "next" \in DOMAIN r.json THEN 0 ELSE 1) }
ThreadResponses(fn) ==
    CASE fn = "map" -> ThreadMapResponses
      [] fn = "get_id_types" -> ThreadValuesResponses
      [] fn = "get_total_number_of_matches" -> ThreadTotalResponses
      [] OTHER -> ThreadFilterResponses

\* The first request of a call: map line 97-100, _get_values 166-168,
\* filter 185-188, get_total_number_of_matches 215-219.
FirstRequest(call, heap, key) ==
    CASE call.fn = "map" ->
            Request("POST", BASE_URL \o "/v3/mapping", headers(key), BulkJson(<<FirstJob>>))
      [] call.fn = "get_id_types" ->
            Request("GET", BASE_URL \o "/v3/mapping/values/idType", headers(key), None)
      [] OTHER ->
            Request("POST", BASE_URL \o "/v3/filter", headers(key),
                    Json("Query", heap[call.q]))

\* What a call does with a response: the frame [pc, result,
\* mapping_job_results, outcome] it is left in.  `first` tells the response to
\* the first request of the call from a later one.
Frame(next_pc, json, results, out) ==
    [pc |-> next_pc, result |-> json, mapping_job_results |-> results, outcome |-> out]

Receive(fn, first, frame, response) ==
    LET json == response.json
    IN  IF RequestRaises(response)
        THEN Frame("done", frame.result, frame.mapping_job_results,
                   HTTPError(response.status_code, response.text))
        ELSE IF fn = "map"
        THEN Frame("done", json, <<>>, ParseMappingJobResults(json))
        ELSE IF fn = "get_id_types"
        THEN Frame("done", json, <<>>,
                   IF "values" \in DOMAIN json THEN Return(json["values"])
                   ELSE Raise("KeyError", "values"))
        ELSE IF fn = "get_total_number_of_matches"
        THEN Frame("done", json, <<>>,
                   IF "total" \in DOMAIN json THEN Return(json["total"])
                   ELSE Raise("KeyError", "total"))
        ELSE IF first /\ "error" \in DOMAIN json
        THEN Frame("done", json, <<>>, Raise("FilterQueryError", json["error"]))
        ELSE IF "data" \notin DOMAIN json
        THEN Frame("done", json, frame.mapping_job_results, Raise("KeyError", "data"))
        ELSE LET results == IF first THEN json["data"]
                            ELSE Accumulate(frame.mapping_job_results, json["data"])
             IN  IF "next" \in DOMAIN json
                 THEN Frame("paging", json, results, Pending)
                 ELSE Frame("done", json, results, ParseFigiResults(results))

\* A thread calls an operation and sends its first request.
ThreadCall(t, call) ==
    /\ pc[t] = "idle"
    /\ op' = [op EXCEPT ![t] = call.fn]
    /\ arg' = [arg EXCEPT ![t] =
                 [fn |-> call.fn, q |-> call.q,
                  query0 |-> IF call.q = None THEN <<>> ELSE query[call.q]]]
    /\ net' = [net EXCEPT ![t] = <<FirstRequest(call, query, api_key)>>]
    /\ pc' = [pc EXCEPT ![t] = "sent"]
    /\ UNCHANGED <<api_key, mapping_jobs, query, result, mapping_job_results,
                   outcome, ret>>

\* The response to the request a thread is waiting on arrives.
ThreadReceive(t, response) ==
    /\ pc[t] = "sent"
    /\ LET frame == Receive(op[t], Count(net[t], "response") = 0,
                            [result |-> result[t],
                             mapping_job_results |-> mapping_job_results[t]],
                            response)
       IN  /\ net' = [net EXCEPT ![t] = @ \o <<Response(response)>>]
           /\ pc' = [pc EXCEPT ![t] = frame.pc]
           /\ result' = [result EXCEPT ![t] = frame.result]
           /\ mapping_job_results' =
                  [mapping_job_results EXCEPT ![t] = frame.mapping_job_results]
           /\ outcome' = [outcome EXCEPT ![t] = frame.outcome]
    /\ UNCHANGED <<api_key, op, mapping_jobs, query, arg, ret>>

\* filter(), line 197: time.sleep(delay)
ThreadSleep(t) ==
    /\ pc[t] = "paging"
    /\ Count(net[t], "request") < MaxPages
    /\ net' = [net EXCEPT ![t] = @ \o <<Sleep(Delay(api_key))>>]
    /\ pc' = [pc EXCEPT ![t] = "slept"]
    /\ UNCHANGED <<api_key, op, mapping_jobs, query, result, mapping_job_results,
                   outcome, arg, ret>>

\* filter(), line 198: query.start = result["next"]
FilterAssign(t) ==
    /\ pc[t] = "slept"
    /\ query' = [query EXCEPT ![arg[t].q] = AssignStart(@, result[t]["next"])]
    /\ pc' = [pc EXCEPT ![t] = "assigned"]
    /\ UNCHANGED <<api_key, op, mapping_jobs, result, mapping_job_results,
                   net, outcome, arg, ret>>

\* filter(), lines 199-200: data = query.json(...); self._request(...)
FilterSend(t) ==
    /\ pc[t] = "assigned"
    /\ net' = [net EXCEPT ![t] = @ \o
                 <<Request("POST", BASE_URL \o "/v3/filter", headers(api_key),
                           Json("Query", query[arg[t].q]))>>]
    /\ pc' = [pc EXCEPT ![t] = "sent"]
    /\ UNCHANGED <<api_key, op, mapping_jobs, query, result, mapping_job_results,
                   outcome, arg, ret>>

InitThreads ==
    /\ api_key \in ApiKeys
    /\ op = [t \in Threads |-> "none"]
    /\ pc = [t \in Threads |-> "idle"]
    /\ mapping_jobs = <<>>
    /\ query = QueryHeap
    /\ result = [t \in Threads |-> <<>>]
    /\ mapping_job_results = [t \in Threads |-> <<>>]
    /\ net = [t \in Threads |-> <<>>]
    /\ outcome = [t \in Threads |-> Pending]
    /\ arg = [t \in Threads |-> NoCall]
    /\ ret = NoRet

NextThreads ==
    \E t \in Threads :
        \/ \E call \in ThreadCalls : ThreadCall(t, call)
        \/ \E response \in ThreadResponses(op[t]) : ThreadReceive(t, response)
        \/ ThreadSleep(t)
        \/ FilterAssign(t)
        \/ FilterSend(t)

SpecThreads == InitThreads /\ [][NextThreads]_vars

\* The requests a call of thread t would have sent had it run alone, given the
\* responses it received: the first carries the Query as it was when the call
\* started, each later one that Query with start set to the `next` cursor of
\* the call's own previous response.
RequestAlone(t, i) ==
    IF i = 1 THEN FirstRequest(arg[t], [q \in {arg[t].q} |-> arg[t].query0], api_key)
    ELSE Request("POST", BASE_URL \o "/v3/filter", headers(api_key),
                 Json("Query", [arg[t].query0 EXCEPT
                                   !["start"] = FromJson(net[t][i - 2].json["next"])]))

\* C12: under every interleaving of the threads' calls on one client, each
\* call sends the requests it would send if it ran alone.
C12_NoInterference ==
    \A t \in Threads :
        \A i \in 1..Len(net[t]) :
            net[t][i].type = "request" => net[t][i] = RequestAlone(t, i)

(***************************************************************************)
(* The request bodies on their own (specification SpecJson): a Query or a  *)
(* MappingJob is constructed from keyword arguments drawn from a bounded   *)
(* set and serialised as filter() / get_total_number_of_matches() and      *)
(* map() serialise it.                                                     *)
(***************************************************************************)
PyTrue == "<True>"

\* Date intervals given to the models: a null bound on either side, two dates
\* of 2023, and a date before the year 1000 (0999-01-02).
JsonDateIntervals ==
    { List(<<NoneItem, Date(738885)>>), List(<<Date(738521), Date(738885)>>),
      List(<<Date(364514), NoneItem>>) }
JsonNumberIntervals == { List(<<NoneItem, Num(2)>>), List(<<Num(1), Num(2)>>) }

\* A field given under its alias, under its own name, or not at all.
EitherName(a, f, v) == {<<>>, a :> v, f :> v}

QueryJsonKwargs ==
    { [query |-> "SJIM"] @@ st @@ ex @@ cu @@ sk @@ cs @@ xp @@ iu :
        st \in Optional("start", {None, "c0"}),
        ex \in EitherName("exchCode", "exch_code", "US"),
        cu \in Optional("currency", {"USD"}),
        sk \in Optional("strike", JsonNumberIntervals),
        cs \in EitherName("contractSize", "contract_size", List(<<Num(0), NoneItem>>)),
        xp \in Optional("expiration", JsonDateIntervals),
        iu \in Optional("includeUnlistedEquities", {PyTrue}) }

MappingJobJsonKwargs ==
    { id @@ mc @@ ms @@ sc @@ s2 @@ ot @@ co @@ ma @@ sd :
        id \in { [idType |-> "TICKER", idValue |-> "IBM"],
                 [id_type |-> "ID_ISIN", id_value |-> "US4592001014"] },
        mc \in EitherName("micCode", "mic_code", "XNYS"),
        ms \in Optional("marketSecDes", {"Equity"}),
        sc \in Optional("securityType", {"Common Stock"}),
        s2 \in Optional("securityType2", {None, "Pool"}),
        ot \in Optional("optionType", {"Call"}),
        co \in Optional("coupon", JsonNumberIntervals),
        ma \in Optional("maturity", JsonDateIntervals),
        sd \in Optional("stateCode", {"NY"}) }

Body(json) == [kind |-> "body", body |-> json]

\* Query(kwargs).json(exclude_none=True, by_alias=True), wrapper.py lines 187, 218
SerializeQuery ==
    /\ arg.fn = "Query.json"
    /\ ret = NoRet
    /\ \E encoder \in StrftimeEncoders :
          ret' = LET q == Construct("Query", arg.kwargs)
                 IN  IF q.kind = "return" THEN Body(JsonWith(encoder, "Query", q.value))
                     ELSE q
    /\ UNCHANGED <<clientVars, arg>>

\* BulkMappingJob.parse_obj([MappingJob(kwargs)]).json(...), wrapper.py line 99
SerializeMappingJobs ==
    /\ arg.fn = "BulkMappingJob.json"
    /\ ret = NoRet
    /\ ret' = LET job == Construct("MappingJob", arg.kwargs)
              IN  IF job.kind = "return" THEN Body(BulkJson(<<job.value>>)) ELSE job
    /\ UNCHANGED <<clientVars, arg>>

InitJson ==
    /\ NoClient
    /\ arg \in { [fn |-> "Query.json", v |-> NoneValue, kwargs |-> kw] :
                    kw \in QueryJsonKwargs }
              \cup { [fn |-> "BulkMappingJob.json", v |-> NoneValue, kwargs |-> kw] :
                       kw \in MappingJobJsonKwargs }
    /\ ret = NoRet

NextJson == SerializeQuery \/ SerializeMappingJobs

SpecJson == InitJson /\ [][NextJson]_vars

(***************************************************************************)
(* Properties of the request bodies (SpecJson).                            *)
(***************************************************************************)
\* The external wire name of each field.
WireName(f) ==
    CASE f = "id_type" -> "idType"
      [] f = "id_value" -> "idValue"
      [] f = "exch_code" -> "exchCode"
      [] f = "mic_code" -> "micCode"
      [] f = "market_sec_des" -> "marketSecDes"
      [] f = "security_type" -> "securityType"
      [] f = "security_type_2" -> "securityType2"
      [] f = "include_unlisted_equities" -> "includeUnlistedEquities"
      [] f = "option_type" -> "optionType"
      [] f = "contract_size" -> "contractSize"
      [] f = "state_code" -> "stateCode"
      [] OTHER -> f

\* The value a field was set to by the keyword arguments, under either name.
SetTo(kwargs, f) ==
    IF WireName(f) \in DOMAIN kwargs THEN kwargs[WireName(f)] ELSE kwargs[f]
\* The fields of the model the keyword arguments set (to something but None).
SetFields(model, kwargs) ==
    { f \in {FieldsOf(model)[i] : i \in 1..Len(FieldsOf(model))} :
        /\ (WireName(f) \in DOMAIN kwargs \/ f \in DOMAIN kwargs)
        /\ IF f \in IntervalFields THEN SetTo(kwargs, f).kind # "None"
           ELSE SetTo(kwargs, f) # None }

\* A date as YYYY-MM-DD: four digits, two digits, two digits.
YYYY_MM_DD(ordinal) ==
    LET ymd == YearMonthDay(ordinal)
    IN  Pad(ymd[1], 4) \o "-" \o Pad(ymd[2], 2) \o "-" \o Pad(ymd[3], 2)

\* An interval bound on the wire: null for None, the number, the date string.
WrittenBound(item) ==
    CASE item.kind = "None" -> [kind |-> "null", n |-> 0, s |-> ""]
      [] item.kind = "int" -> [kind |-> "number", n |-> item.n, s |-> ""]
      [] OTHER -> [kind |-> "string", n |-> 0, s |-> YYYY_MM_DD(item.n)]

BodyAsSet(model, kwargs, body) ==
    /\ DOMAIN body = {WireName(f) : f \in SetFields(model, kwargs)}
    /\ \A f \in SetFields(model, kwargs) :
          IF f \in IntervalFields
          THEN /\ Len(body[WireName(f)]) = Len(SetTo(kwargs, f).items)
               /\ \A i \in 1..Len(body[WireName(f)]) :
                      body[WireName(f)][i] = WrittenBound(SetTo(kwargs, f).items[i])
          ELSE body[WireName(f)] = SetTo(kwargs, f)

\* C13: the request body of a Query (filter, get_total_number_of_matches) or
\* of a MappingJob (map) holds exactly the fields that were set, each under
\* its wire name, nothing for an unset field, and each interval with null
\* bounds kept in position and dates written as YYYY-MM-DD.
C13_RequestBody ==
    /\ (Called("Query.json") /\ ret.kind = "body") =>
            BodyAsSet("Query", arg.kwargs, ret.body)
    /\ (Called("BulkMappingJob.json") /\ ret.kind = "body") =>
            /\ Len(ret.body) = 1
            /\ BodyAsSet("MappingJob", arg.kwargs, ret.body[1])

(***************************************************************************)
(* Pagination and the caller's Query (specification Spec).                 *)
(***************************************************************************)
\* The tier's fixed delay, in milliseconds.
ClaimedDelay == IF HasCredential THEN 3500 ELSE 12500

\* The cursor a response carries in `next` (None for a JSON null), and the
\* start a request body carries (None when it has no start: nulls are omitted).
CursorOf(json) == IF json["next"] = JsonNull THEN None ELSE json["next"]
BodyStart(data) == IF "start" \in DOMAIN data THEN data["start"] ELSE None

\* C14: in a filter() call every POST after the first directly follows a sleep
\* of the tier's delay (12.5 s without credential, 3.5 s with), which follows
\* the response to the previous POST; its body carries start equal to the
\* `next` cursor of that response (no start for a null `next`); and nothing
\* follows the first response without a `next` key.
C14_CursorChain ==
    op = "filter" =>
        /\ \A i \in Indices("request") :
              i > 1 =>
                /\ i >= 4
                /\ net[i - 1] = Sleep(ClaimedDelay)
                /\ net[i - 2].type = "response"
                /\ net[i - 2].status_code = 200
                /\ "next" \in DOMAIN net[i - 2].json
                /\ BodyStart(net[i].data) = CursorOf(net[i - 2].json)
        /\ \A i \in Indices("sleep") :
              IF i = Len(net) THEN pc = "slept" ELSE net[i + 1].type = "request"
        /\ \A j \in Indices("response") :
              (net[j].status_code = 200 /\ "next" \notin DOMAIN net[j].json) =>
                  j = Len(net) /\ pc = "idle"

\* C14 witness: a credentialed filter() of a Query built with start "c0" sent
\* three requests, the second with cursor c1 and the third with cursor c2.
C14_Witness ==
    /\ op = "filter"
    /\ HasCredential
    /\ Len(net) = 8
    /\ net[1].data = [query |-> "CTA", start |-> "c0", exchCode |-> "US"]
    /\ net[2].json = [data |-> <<>>, next |-> "c1"]
    /\ net[3] = Sleep(3500)
    /\ net[4].data = [query |-> "CTA", start |-> "c1", exchCode |-> "US"]
    /\ net[5].json = [data |-> <<>>, next |-> "c2"]
    /\ net[7].data = [query |-> "CTA", start |-> "c2", exchCode |-> "US"]
    /\ net[8].status_code = 200
    /\ "next" \notin DOMAIN net[8].json
    /\ pc = "idle"

(***************************************************************************)
(* A MappingJob without a valid id_type (specification SpecJob).           *)
(***************************************************************************)
\* C15: a MappingJob construction whose id_type is missing or None fails with
\* a validation error naming id_type as the offending field, and with no
\* other kind of error.
C15_IdTypeReported ==
    (Called("MappingJob") /\ ~GivenString("id_type")) =>
        /\ ret.kind = "raise"
        /\ ret.exc = "ValidationError"
        /\ \E i \in 1..Len(ret.errors) : ret.errors[i].loc = WireName("id_type")

(***************************************************************************)
(* The caller's Query across calls (specification Spec).                   *)
(***************************************************************************)
\* The index of the last request of the current call.
LastRequest == CHOOSE i \in Indices("request") : \A j \in Indices("request") : j <= i

\* During and after a filter() call that followed a cursor, start holds the
\* last cursor followed.
StartHoldsLastCursor ==
    (op = "filter" /\ Count(net, "request") > 1) =>
        query["start"] = CursorOf(net[LastRequest - 2].json)

\* What a step may do to the caller's Query, and what a call sends first.
QueryFrame ==
    \* a pass of filter()'s loop changes start and nothing else
    /\ pc = "slept" =>
          /\ query'["start"] = CursorOf(result)
          /\ \A f \in DOMAIN query \ {"start"} : query'[f] = query[f]
          /\ DOMAIN query' = DOMAIN query
    \* waiting for a response, receiving it and sleeping leave the Query alone
    /\ pc \in {"sent", "paging"} => query' = query
    \* the first request of a call and the end of a call leave the Query alone
    /\ (pc = "idle" /\ op' # "none") => query' = query
    /\ (op # "none" /\ op' = "none") => query' = query
    \* a call sends the Query's current start in its first request
    /\ (op = "none" /\ op' \in {"filter", "get_total_number_of_matches"}) =>
          IF query["start"] = None THEN "start" \notin DOMAIN net'[1].data
          ELSE /\ "start" \in DOMAIN net'[1].data
               /\ net'[1].data["start"] = query["start"]

\* C16: filter() changes nothing of the caller's Query but start; once it has
\* followed a cursor, start holds the last cursor followed, whether the call
\* returns or fails, and is not restored; a call whose first response has no
\* `next` leaves the Query unchanged; a later filter() or
\* get_total_number_of_matches() with that Query sends the retained cursor in
\* its first request.
C16_QueryRetainsCursor == []StartHoldsLastCursor /\ [][QueryFrame]_vars

\* C16 witness: the Query built as Query(query="SJIM"), without start, is sent
\* by get_total_number_of_matches() with the cursor c2 an earlier filter()
\* left in it.
C16_Witness ==
    /\ op = "get_total_number_of_matches"
    /\ query["query"] = "SJIM"
    /\ query["start"] = "c2"
    /\ net[1].data = [query |-> "SJIM", start |-> "c2"]

====
